---- MODULE Spec2Model ----
(***************************************************************************)
(* A model of the canvas-confetti TypeScript fork.                         *)
(*                                                                         *)
(* Four pieces of the repository are modelled:                             *)
(*   - the module-level engine of src/src/confetti.ts (lines 1-602):       *)
(*     createParticle, updateParticle, animate, reset, confetti;           *)
(*   - the engine snapshot that provides create() (src/unnamed/part_001):  *)
(*     its createParticle, updateParticle and the instance returned by     *)
(*     create(canvas, globalOptions);                                      *)
(*   - ConfettiService (src/src/app/services/confetti.service.ts), whose   *)
(*     methods call confetti() and set timers that call confetti.reset();  *)
(*   - the browser around them: document.body's children, the queue of     *)
(*     requestAnimationFrame callbacks, window.innerWidth/innerHeight and  *)
(*     whether a canvas yields a 2D context.                               *)
(*                                                                         *)
(* Numbers.  JavaScript numbers are modelled in fixed point:               *)
(*   - fractions of 1 (origin.x, Math.random(), decay) are in tenths;      *)
(*   - lengths and speeds are in tenths of a pixel (Px converts pixels);   *)
(*   - angles in radians are in hundredths of a radian, pi being 314;      *)
(*   - cos and sin are rounded to the nearest of -1, 0, 1.                 *)
(* The fields of a particle that only shape the drawn outline (tiltAngle,  *)
(* tiltSin, tiltCos, random, ovalScalar) are left out.                     *)
(***************************************************************************)
EXTENDS Integers, Sequences, FiniteSets, TLC

VARIABLES
    env,             \* the browser: [has2d], whether a canvas yields a 2D context
    body,            \* document.body's canvas children (a set of canvas ids)
    raf,             \* pending requestAnimationFrame callbacks (set of handles)
    calls,           \* number of confetti() calls counted so far
    canvas,          \* confetti.ts:155  (0 is null)
    ctx,             \* confetti.ts:156  (FALSE is null)
    particles,       \* confetti.ts:157
    animationFrame,  \* confetti.ts:158  (0 is null)
    style,           \* style.zIndex of each canvas an engine made that is in body
    inst,            \* the closure of one create(canvas, globalOptions) call
    cfgTicks,        \* for each particle of inst, the ticks option it was made
                     \* with (a history, read by no operation)
    svc,             \* ConfettiService's page: the pending setTimeout callbacks
                     \* and, for each particle, the service call that made it
    last             \* what the last step did (a log, read by no operation)

vars == <<env, body, raf, calls,
          canvas, ctx, particles, animationFrame, style, inst, cfgTicks, svc, last>>

(***************************************************************************)
(* Bounds                                                                  *)
(***************************************************************************)
MaxCalls == 2
MaxCount == 2
MaxLive == 2
MaxTicks == 2

(***************************************************************************)
(* The browser window.                                                     *)
(***************************************************************************)
innerWidth == 8
innerHeight == 8

Px(n) == 10 * n

Min(a, b) == IF a < b THEN a ELSE b

\* Math.floor(u * len) for u in tenths
FloorTimes(u, len) == (u * len) \div 10

\* degrees * (Math.PI / 180), in hundredths of a radian
Rad(deg) == (deg * 314) \div 180

\* the quadrant axis nearest to an angle a (hundredths of a radian)
Quadrant(a) == (((a % 628) + 78) \div 157) % 4

Cos(a) == <<1, 0, -1, 0>>[Quadrant(a) + 1]

Sin(a) == <<0, 1, 0, -1>>[Quadrant(a) + 1]

(***************************************************************************)
(* Colour strings and parseInt(s, 16).                                     *)
(***************************************************************************)
HexLower == <<"0","1","2","3","4","5","6","7","8","9","a","b","c","d","e","f">>

HexUpper == <<"0","1","2","3","4","5","6","7","8","9","A","B","C","D","E","F">>

HexVal(c) == (CHOOSE i \in 1..16 : HexLower[i] = c \/ HexUpper[i] = c) - 1

RECURSIVE ParseInt16(_)
ParseInt16(s) ==
    IF s = <<>> THEN 0
    ELSE 16 * ParseInt16(SubSeq(s, 1, Len(s) - 1)) + HexVal(s[Len(s)])

\* String.prototype.slice(from, to) on a string held as a sequence of characters
Slice(s, from, to) == SubSeq(s, from + 1, to)

Hex(a, b, c, d, e, f) == <<"#", a, b, c, d, e, f>>

(***************************************************************************)
(* Options (confetti.ts:21-39) and their defaults (confetti.ts:102-128).   *)
(* An optional number is <<>> when undefined and <<n>> when given.         *)
(*   angle, spread        degrees                                          *)
(*   startVelocity, gravity, drift      pixels per frame                   *)
(*   decay, x, y, origin.x, origin.y    tenths                             *)
(***************************************************************************)
defaults ==
    [ particleCount |-> 50,
      angle |-> 90,
      spread |-> 45,
      startVelocity |-> 45,
      decay |-> 9,
      gravity |-> 1,
      drift |-> 0,
      ticks |-> 200,
      x |-> 5,
      y |-> 5,
      shapes |-> <<"square", "circle">>,
      zIndex |-> 100,
      colors |-> << Hex("2","6","c","c","f","f"), Hex("a","2","5","a","f","d"),
                    Hex("f","f","5","e","7","e"), Hex("8","8","f","f","5","a"),
                    Hex("f","c","f","f","4","2"), Hex("f","f","a","6","2","d"),
                    Hex("f","f","3","6","f","f") >>,
      disableForReducedMotion |-> FALSE,
      scalar |-> 1,
      flat |-> FALSE,
      origin |-> << [x |-> <<>>, y |-> <<>>] >> ]

\* { ...defaults, ...options }
Merge(base, options) ==
    [k \in DOMAIN base |-> IF k \in DOMAIN options THEN options[k] ELSE base[k]]

\* v || d  for an optional number v
OrElse(v, d) == IF v = <<>> \/ v[1] = 0 THEN d ELSE v[1]

(***************************************************************************)
(* createParticle (confetti.ts:183-234).  rnd holds the values returned by *)
(* the calls of Math.random(), in tenths, one field per call.              *)
(***************************************************************************)
createParticle(options, rnd) ==
    LET radAngle == Rad(options.angle)
        radSpread == Rad(options.spread)
        pick(u) == options.colors[FloorTimes(u, Len(options.colors)) + 1]
    IN  [ x |-> options.x,
          y |-> options.y,
          wobble |-> rnd.wobble * 100,
          wobbleSpeed |-> Min(11, rnd.wobbleSpeed + 5),
          velocity |-> options.startVelocity * 5 + rnd.velocity * options.startVelocity,
          angle2D |-> (0 - radAngle)
                      + ((5 * radSpread) \div 10 - (rnd.angle2D * radSpread) \div 10),
          color |-> [ r |-> ParseInt16(Slice(pick(rnd.r), 1, 3)),
                      g |-> ParseInt16(Slice(pick(rnd.g), 3, 5)),
                      b |-> ParseInt16(Slice(pick(rnd.b), 5, 7)) ],
          shape |-> options.shapes[FloorTimes(rnd.shape, Len(options.shapes)) + 1],
          tick |-> 0,
          totalTicks |-> options.ticks,
          decay |-> options.decay,
          drift |-> Px(options.drift),
          wobbleX |-> 0,
          wobbleY |-> 0,
          gravity |-> Px(options.gravity * 3),
          scalar |-> options.scalar,
          flat |-> options.flat ]

(***************************************************************************)
(* updateParticle (confetti.ts:236-264): the particle after the call, and  *)
(* the value the call returns.                                             *)
(***************************************************************************)
\* an update that wobbles a flat particle like any other
updateParticleWobblesFlat(particle) ==
    LET x1 == particle.x + Cos(particle.angle2D) * particle.velocity + particle.drift
        y1 == particle.y + Sin(particle.angle2D) * particle.velocity + particle.gravity
        w1 == particle.wobble + particle.wobbleSpeed
    IN  [ particle EXCEPT
            !.x = x1,
            !.y = y1,
            !.velocity = (particle.velocity * particle.decay) \div 10,
            !.wobble = w1,
            !.wobbleX = x1 + Px(10 * particle.scalar) * Cos(w1),
            !.wobbleY = y1 + Px(10 * particle.scalar) * Sin(w1),
            !.tick = particle.tick + 1 ]

updateParticle(particle) ==
    LET x1 == particle.x + Cos(particle.angle2D) * particle.velocity + particle.drift
        y1 == particle.y + Sin(particle.angle2D) * particle.velocity + particle.gravity
        w1 == IF particle.flat THEN 0 ELSE particle.wobble + particle.wobbleSpeed
    IN  [ particle EXCEPT
            !.x = x1,
            !.y = y1,
            !.velocity = (particle.velocity * particle.decay) \div 10,
            !.wobble = w1,
            !.wobbleX = IF particle.flat THEN x1 + Px(10 * particle.scalar)
                        ELSE x1 + Px(10 * particle.scalar) * Cos(w1),
            !.wobbleY = IF particle.flat THEN y1 + Px(10 * particle.scalar)
                        ELSE y1 + Px(10 * particle.scalar) * Sin(w1),
            !.tick = particle.tick + 1 ]

\* a return value that looks at the tick alone
updateReturnsTicksOnly(particle) == particle.tick < particle.totalTicks

updateReturns(particle) ==
    /\ particle.tick < particle.totalTicks
    /\ updateParticle(particle).y < Px(innerHeight)

\* a filter that keeps every particle it updated
filterKeepsDead(ps) == [i \in 1..Len(ps) |-> updateParticle(ps[i])]

\* a fill style whose opacity is the progress itself
renderParticleFadesIn(particle) ==
    [ r |-> particle.color.r, g |-> particle.color.g, b |-> particle.color.b,
      opacity |-> [num |-> particle.tick, den |-> particle.totalTicks] ]

\* renderParticle (confetti.ts:266-278): the fill style it draws with; the
\* opacity 1 - tick / totalTicks is held as the fraction num / den
renderParticle(particle) ==
    [ r |-> particle.color.r, g |-> particle.color.g, b |-> particle.color.b,
      opacity |-> [num |-> particle.totalTicks - particle.tick,
                   den |-> particle.totalTicks] ]

\* particles.filter(...) of animate (confetti.ts:392-398), ctx being non-null
RECURSIVE filterParticles(_)
filterParticles(ps) ==
    IF ps = <<>> THEN <<>>
    ELSE IF updateReturns(Head(ps))
         THEN <<updateParticle(Head(ps))>> \o filterParticles(Tail(ps))
         ELSE filterParticles(Tail(ps))

(***************************************************************************)
(* The module-level engine of confetti.ts.  Its operations are functions   *)
(* of the state  s = [canvas, ctx, particles, animationFrame, body, raf],  *)
(* the module variables and the browser.                                   *)
(*                                                                         *)
(* A new canvas element and a new frame handle are named by the least      *)
(* positive number that names no element or handle the state still holds:  *)
(* as in the browser, a new name never equals one that is held.            *)
(***************************************************************************)
State ==
    [ canvas |-> canvas, ctx |-> ctx, particles |-> particles,
      animationFrame |-> animationFrame, body |-> body, raf |-> raf,
      style |-> style ]

\* canvas.style.zIndex = "999999" (confetti.ts:167, part_001:373)
CanvasZIndex == 999999

\* the styles once element c has been given its style
Styled(st, c) ==
    [x \in DOMAIN st \cup {c} |-> IF x = c THEN [zIndex |-> CanvasZIndex] ELSE st[x]]

\* the styles once element c has left the document
Unstyled(st, c) == [x \in DOMAIN st \ {c} |-> st[x]]

Fresh(held) == CHOOSE n \in 1..(Cardinality(held) + 1) :
                   /\ n \notin held
                   /\ \A m \in 1..(n - 1) : m \in held

\* animationFrame = requestAnimationFrame(animate)
requestFrame(s) ==
    LET h == Fresh(s.raf \cup {s.animationFrame})
    IN  [ s EXCEPT !.animationFrame = h, !.raf = s.raf \cup {h} ]

\* reset that leaves the scheduled frame alone
resetKeepsFrame(s) ==
    LET s2 == IF s.canvas # 0
              THEN [ s EXCEPT !.ctx = FALSE,
                              !.body = s.body \ {s.canvas},
                              !.style = Unstyled(s.style, s.canvas),
                              !.canvas = 0 ]
              ELSE s
    IN  [ s2 EXCEPT !.particles = <<>> ]

\* reset that drops its canvas without detaching it
resetLeavesCanvas(s) ==
    LET s1 == IF s.animationFrame # 0
              THEN [ s EXCEPT !.raf = s.raf \ {s.animationFrame},
                              !.animationFrame = 0 ]
              ELSE s
        s2 == IF s1.canvas # 0
              THEN [ s1 EXCEPT !.ctx = FALSE, !.canvas = 0 ]
              ELSE s1
    IN  [ s2 EXCEPT !.particles = <<>> ]

\* reset that releases the canvas only when it had no frame to cancel
resetOneThing(s) ==
    LET s1 == IF s.animationFrame # 0
              THEN [ s EXCEPT !.raf = s.raf \ {s.animationFrame},
                              !.animationFrame = 0 ]
              ELSE IF s.canvas # 0
              THEN [ s EXCEPT !.ctx = FALSE,
                              !.body = s.body \ {s.canvas},
                              !.style = Unstyled(s.style, s.canvas),
                              !.canvas = 0 ]
              ELSE s
    IN  [ s1 EXCEPT !.particles = <<>> ]

\* reset (confetti.ts:407-418)
reset(s) ==
    LET s1 == IF s.animationFrame # 0
              THEN [ s EXCEPT !.raf = s.raf \ {s.animationFrame},
                              !.animationFrame = 0 ]
              ELSE s
        s2 == IF s1.canvas # 0
              THEN [ s1 EXCEPT !.ctx = FALSE,
                               !.body = s1.body \ {s1.canvas},
                               !.style = Unstyled(s1.style, s1.canvas),
                               !.canvas = 0 ]
              ELSE s1
    IN  [ s2 EXCEPT !.particles = <<>> ]

\* animate that only stops rescheduling when the list empties
animateNoReset(s, h) ==
    LET s0 == [ s EXCEPT !.raf = s.raf \ {h} ]
        s1 == [ s0 EXCEPT !.particles = filterParticles(s0.particles) ]
    IN  IF ~s0.ctx \/ s0.canvas = 0 THEN s0
        ELSE IF Len(s1.particles) # 0 THEN requestFrame(s1)
        ELSE s1

\* animate that reschedules itself whatever the list holds
animateForever(s, h) ==
    LET s0 == [ s EXCEPT !.raf = s.raf \ {h} ]
        s1 == [ s0 EXCEPT !.particles = filterParticles(s0.particles) ]
    IN  IF ~s0.ctx \/ s0.canvas = 0 THEN s0 ELSE requestFrame(s1)

\* animate (confetti.ts:388-405), run by the browser for the pending handle h
animate(s, h) ==
    LET s0 == [ s EXCEPT !.raf = s.raf \ {h} ]
        s1 == [ s0 EXCEPT !.particles = filterParticles(s0.particles) ]
    IN  IF ~s0.ctx \/ s0.canvas = 0 THEN s0
        ELSE IF Len(s1.particles) # 0 THEN requestFrame(s1)
        ELSE reset(s1)

\* createCanvas (confetti.ts:160-171)
createCanvas(s) ==
    IF s.canvas = 0
    THEN LET c == Fresh(s.body)
         IN  [ s EXCEPT !.canvas = c, !.body = s.body \cup {c},
                        !.style = Styled(s.style, c) ]
    ELSE s

\* the options createParticle is given (confetti.ts:443-451)
resolveOrigin(merged) ==
    LET m1 == IF merged.origin # <<>>
              THEN [ merged EXCEPT !.x = OrElse(merged.origin[1].x, 5),
                                   !.y = OrElse(merged.origin[1].y, 5) ]
              ELSE merged
    IN  [ m1 EXCEPT !.x = m1.x * innerWidth, !.y = m1.y * innerHeight ]

\* an assignment in place of the push
pushReplacing(ps, merged, rnds) ==
    [i \in 1..merged.particleCount |-> createParticle(merged, rnds[i])]

\* particles.push(...newParticles) (confetti.ts:453-457)
pushParticles(ps, merged, rnds) ==
    ps \o [i \in 1..merged.particleCount |-> createParticle(merged, rnds[i])]

\* how a call of confetti() ends; prefersReduced is what
\* window.matchMedia("(prefers-reduced-motion)").matches holds at the call
outcome(s, options, prefersReduced) ==
    LET merged == Merge(defaults, options)
    IN  IF merged.disableForReducedMotion /\ prefersReduced THEN "reduced"
        ELSE IF ~s.ctx /\ ~env.has2d THEN "declined"
        ELSE "accepted"

\* confetti that makes its particles before it asks for the context
confettiPushesFirst(s, options, prefersReduced, rnds) ==
    LET merged == Merge(defaults, options)
        s1 == createCanvas(s)
        s2 == [ s1 EXCEPT !.particles = pushParticles(s1.particles, resolveOrigin(merged), rnds) ]
        s3 == IF ~s2.ctx THEN [ s2 EXCEPT !.ctx = env.has2d ] ELSE s2
    IN  IF merged.disableForReducedMotion /\ prefersReduced THEN s
        ELSE IF ~s3.ctx THEN s3
        ELSE IF s3.animationFrame = 0 THEN requestFrame(s3)
        ELSE s3

\* confetti that requests a frame whether or not one is held
confettiAlwaysSchedules(s, options, prefersReduced, rnds) ==
    LET merged == Merge(defaults, options)
        s1 == createCanvas(s)
        s2 == IF ~s1.ctx THEN [ s1 EXCEPT !.ctx = env.has2d ] ELSE s1
        s3 == [ s2 EXCEPT !.particles = pushParticles(s2.particles, resolveOrigin(merged), rnds) ]
    IN  IF merged.disableForReducedMotion /\ prefersReduced THEN s
        ELSE IF ~s2.ctx THEN s2
        ELSE requestFrame(s3)

\* confetti that requests its frame before it asks for the context
confettiSchedulesFirst(s, options, prefersReduced, rnds) ==
    LET merged == Merge(defaults, options)
        s0 == createCanvas(s)
        s1 == IF s0.animationFrame = 0 THEN requestFrame(s0) ELSE s0
        s2 == IF ~s1.ctx THEN [ s1 EXCEPT !.ctx = env.has2d ] ELSE s1
        s3 == [ s2 EXCEPT !.particles = pushParticles(s2.particles, resolveOrigin(merged), rnds) ]
    IN  IF merged.disableForReducedMotion /\ prefersReduced THEN s
        ELSE IF ~s2.ctx THEN s2
        ELSE s3

\* confetti (confetti.ts:420-464)
confetti(s, options, prefersReduced, rnds) ==
    LET merged == Merge(defaults, options)
        s1 == createCanvas(s)
        s2 == IF ~s1.ctx THEN [ s1 EXCEPT !.ctx = env.has2d ] ELSE s1
        s3 == [ s2 EXCEPT !.particles = pushParticles(s2.particles, resolveOrigin(merged), rnds) ]
    IN  IF merged.disableForReducedMotion /\ prefersReduced THEN s
        ELSE IF ~s2.ctx THEN s2
        ELSE IF s3.animationFrame = 0 THEN requestFrame(s3)
        ELSE s3

(***************************************************************************)
(* The engine snapshot of part_001: createParticle (149-170),              *)
(* updateParticle (172-180) and create (346-465).  Its Options give no     *)
(* flat, its default origin is {x: 0.5, y: 0.5}, and x and y reach         *)
(* createParticle as they are: a particle starts at (0.5, 0.5) pixels.     *)
(* Math.cos and Math.sin are given options.angle, a number of degrees, as  *)
(* a number of radians.                                                    *)
(***************************************************************************)
HardTicks == 200

defaultsOfCreate ==
    [ particleCount |-> 50,
      angle |-> 90,
      spread |-> 45,
      startVelocity |-> 45,
      decay |-> 9,
      gravity |-> 1,
      drift |-> 0,
      ticks |-> 200,
      x |-> 5,
      y |-> 5,
      shapes |-> <<"square", "circle">>,
      zIndex |-> 100,
      colors |-> defaults.colors,
      disableForReducedMotion |-> FALSE,
      scalar |-> 1,
      origin |-> << [x |-> <<5>>, y |-> <<5>>] >> ]

\* createParticle (part_001:149-170)
createParticleOfCreate(options, rnd) ==
    [ color |-> options.colors[FloorTimes(rnd.color, Len(options.colors)) + 1],
      shape |-> options.shapes[FloorTimes(rnd.shape, Len(options.shapes)) + 1],
      tick |-> 0,
      x |-> options.x,
      y |-> options.y,
      velocity |-> options.startVelocity * 5,
      angle |-> 100 * options.angle
                + (10 * rnd.angle * 2 * options.spread - 100 * options.spread),
      wobble |-> rnd.wobble * 100,
      wobbleSpeed |-> 10 + rnd.wobbleSpeed,
      decay |-> options.decay,
      gravity |-> Px(options.gravity),
      drift |-> Px(options.drift),
      scalar |-> options.scalar ]

\* updateParticle (part_001:172-180): the particle after the call
updateParticleOfCreate(particle) ==
    [ particle EXCEPT
        !.tick = particle.tick + 1,
        !.x = particle.x + Cos(particle.angle) * particle.velocity + particle.drift,
        !.y = particle.y + Sin(particle.angle) * particle.velocity + particle.gravity,
        !.velocity = (particle.velocity * particle.decay) \div 10,
        !.wobble = particle.wobble + particle.wobbleSpeed ]

\* updateParticle (part_001:172-180): the value the call returns
updateReturnsOfCreate(particle) ==
    LET after == updateParticleOfCreate(particle)
    IN  after.tick < HardTicks /\ after.y < Px(innerHeight)

\* the entries of xs at the places where the particle of ps stays alive
RECURSIVE keepAlive(_, _)
keepAlive(ps, xs) ==
    IF ps = <<>> THEN <<>>
    ELSE IF updateReturnsOfCreate(Head(ps))
         THEN <<Head(xs)>> \o keepAlive(Tail(ps), Tail(xs))
         ELSE keepAlive(Tail(ps), Tail(xs))

\* particles.filter(...) of create's animate (part_001:400-406)
filterOfCreate(ps) ==
    keepAlive(ps, [i \in 1..Len(ps) |-> updateParticleOfCreate(ps[i])])

\* the closure variables of create (part_001:346-358); worker stays null
create(canvasArg, globalOptions) ==
    [ canvas |-> canvasArg,
      globalOptions |-> globalOptions,
      currentCanvas |-> canvasArg,
      currentCtx |-> FALSE,
      animationFrame |-> 0,
      particles |-> <<>> ]

\* the state create's functions work on: the closure and the browser
StateOfCreate == [ c |-> inst, body |-> body, raf |-> raf, style |-> style ]

\* animationFrame = requestAnimationFrame(animate) (part_001:409, 434)
requestFrameOfCreate(s) ==
    LET h == Fresh(s.raf \cup {s.c.animationFrame})
    IN  [ s EXCEPT !.c.animationFrame = h, !.raf = s.raf \cup {h} ]

\* initCanvas (part_001:366-388)
initCanvas(s) ==
    LET s1 == IF s.c.currentCanvas = 0
              THEN LET c == Fresh(s.body)
                   IN  [ s EXCEPT !.c.currentCanvas = c, !.body = s.body \cup {c},
                                  !.style = Styled(s.style, c) ]
              ELSE s
    IN  IF ~s1.c.currentCtx THEN [ s1 EXCEPT !.c.currentCtx = env.has2d ] ELSE s1

\* create's animate (part_001:396-411), run by the browser for the handle h
animateOfCreate(s, h) ==
    LET s0 == [ s EXCEPT !.raf = s.raf \ {h} ]
        s1 == [ s0 EXCEPT !.c.particles = filterOfCreate(s0.c.particles) ]
    IN  IF ~s0.c.currentCtx \/ s0.c.currentCanvas = 0 THEN s0
        ELSE IF Len(s1.c.particles) # 0 THEN requestFrameOfCreate(s1)
        ELSE s1

\* how a call of the instance ends
outcomeOfCreate(s, prefersReduced) ==
    IF s.c.globalOptions.disableForReducedMotion /\ prefersReduced THEN "reduced"
    ELSE IF ~s.c.currentCtx /\ ~env.has2d THEN "declined"
    ELSE "accepted"

\* createParticles and the push (part_001:390-394, 430-431)
pushOfCreate(ps, merged, rnds) ==
    ps \o [i \in 1..merged.particleCount |-> createParticleOfCreate(merged, rnds[i])]

\* the instance (part_001:413-438)
instance(s, options, prefersReduced, rnds) ==
    LET merged == Merge(defaultsOfCreate, options)
        s1 == IF ~s.c.currentCtx THEN initCanvas(s) ELSE s
        s2 == [ s1 EXCEPT !.c.particles = pushOfCreate(s1.c.particles, merged, rnds) ]
    IN  IF s.c.globalOptions.disableForReducedMotion /\ prefersReduced THEN s
        ELSE IF ~s1.c.currentCtx THEN s1
        ELSE IF s2.c.animationFrame = 0 THEN requestFrameOfCreate(s2)
        ELSE s2

\* instance.reset that removes whatever canvas it holds
instanceResetRemovesAny(s) ==
    LET s1 == IF s.c.animationFrame # 0
              THEN [ s EXCEPT !.raf = s.raf \ {s.c.animationFrame},
                              !.c.animationFrame = 0 ]
              ELSE s
        s2 == IF s1.c.currentCanvas # 0
              THEN [ s1 EXCEPT !.body = s1.body \ {s1.c.currentCanvas},
                               !.style = Unstyled(s1.style, s1.c.currentCanvas) ]
              ELSE s1
    IN  [ s2 EXCEPT !.c.particles = <<>>,
                    !.c.currentCanvas = 0,
                    !.c.currentCtx = FALSE ]

\* instance.reset (part_001:440-462)
instanceReset(s) ==
    LET s1 == IF s.c.animationFrame # 0
              THEN [ s EXCEPT !.raf = s.raf \ {s.c.animationFrame},
                              !.c.animationFrame = 0 ]
              ELSE s
        s2 == IF s1.c.currentCanvas # 0 /\ s1.c.canvas = 0
              THEN [ s1 EXCEPT !.body = s1.body \ {s1.c.currentCanvas},
                               !.style = Unstyled(s1.style, s1.c.currentCanvas) ]
              ELSE s1
    IN  [ s2 EXCEPT !.c.particles = <<>>,
                    !.c.currentCanvas = s2.c.canvas,
                    !.c.currentCtx = FALSE ]

(***************************************************************************)
(* Inputs.  Math.random() returns 0 or 0.5; Draw(u, v) is the run of       *)
(* draws of one createParticle call that returns u everywhere except for   *)
(* the green channel's palette index, where it returns v.                  *)
(***************************************************************************)
Draw(u, v) ==
    [ wobble |-> u, wobbleSpeed |-> u, velocity |-> u, angle2D |-> u,
      r |-> u, g |-> v, b |-> u, shape |-> u ]

DrawList == << Draw(5, 5), Draw(0, 0), Draw(0, 5) >>

\* the draws of a call creating n particles: DrawList in turn, from place k
Draws(n, k) == [i \in 1..n |-> DrawList[((i + k) % Len(DrawList)) + 1]]

Red == Hex("f","f","0","0","0","0")

Blue == Hex("0","0","0","0","f","f")

CallOptions ==
    { [particleCount |-> n, ticks |-> t] : n \in 0..MaxCount, t \in 0..MaxTicks }
    \cup
    { [ particleCount |-> 1, ticks |-> 1, colors |-> <<Red, Blue>>,
        origin |-> << [x |-> <<0>>, y |-> <<6>>] >> ],
      [ particleCount |-> 1, ticks |-> 1, flat |-> TRUE, scalar |-> 2,
        colors |-> <<Blue, Red>>, origin |-> << [x |-> <<10>>, y |-> <<>>] >> ],
      [ particleCount |-> 1, ticks |-> MaxTicks, startVelocity |-> 0,
        origin |-> <<>>, x |-> 0, y |-> 8, zIndex |-> 5 ],
      [ particleCount |-> 1, ticks |-> 1, disableForReducedMotion |-> TRUE ] }

(***************************************************************************)
(* The log of a step: the operation, its options, how it ended, the state  *)
(* it started from, and for a frame every particle it updated, with the    *)
(* value updateParticle returned, and the particles it drew.  The log of a *)
(* reset also tells, in after, which step the reset came right after.      *)
(***************************************************************************)
NoOptions == [particleCount |-> 0]

Log(op, options, result, updated, drawn) ==
    [ op |-> op, options |-> options, result |-> result,
      pending |-> raf # {}, live |-> Len(particles), hadCanvas |-> canvas # 0,
      updated |-> updated, drawn |-> drawn, after |-> <<>> ]

\* the step the state was left by, for the log of the step that follows it
Before ==
    << [ op |-> last.op, result |-> last.result,
         idle |-> ~last.pending /\ last.live = 0 /\ ~last.hadCanvas ] >>

Set(s) ==
    /\ canvas' = s.canvas
    /\ ctx' = s.ctx
    /\ particles' = s.particles
    /\ animationFrame' = s.animationFrame
    /\ body' = s.body
    /\ raf' = s.raf
    /\ style' = s.style

Init ==
    /\ env \in [has2d : BOOLEAN]
    /\ body = {}
    /\ raf = {}
    /\ calls = 0
    /\ canvas = 0
    /\ ctx = FALSE
    /\ particles = <<>>
    /\ animationFrame = 0
    /\ style = <<>>
    /\ inst = create(0, [resize |-> FALSE, disableForReducedMotion |-> FALSE])
    /\ cfgTicks = <<>>
    /\ svc = [timers |-> {}, owner |-> <<>>]
    /\ last = [ op |-> "init", options |-> NoOptions, result |-> "",
                pending |-> FALSE, live |-> 0, hadCanvas |-> FALSE,
                updated |-> <<>>, drawn |-> <<>>, after |-> <<>> ]

\* a call of confetti(options)
Call(options, prefersReduced, k) ==
    LET n == Merge(defaults, options).particleCount
    IN  /\ Len(particles) + n <= MaxLive
        /\ \E s \in {confetti(State, options, prefersReduced, Draws(n, k))} : Set(s)
        /\ last' = Log("confetti", options, outcome(State, options, prefersReduced),
                       <<>>, <<>>)

Confetti ==
    /\ \E options \in CallOptions, prefersReduced \in BOOLEAN, k \in 0..2 :
         /\ prefersReduced => "disableForReducedMotion" \in DOMAIN options
         /\ k # 0 => "colors" \in DOMAIN options
         /\ Call(options, prefersReduced, k)
    /\ UNCHANGED <<env, calls, inst, cfgTicks, svc>>

\* the browser runs a pending frame callback
Frame ==
    /\ \E h \in raf :
         /\ \E s \in {animate(State, h)} : Set(s)
         /\ last' = IF ~ctx \/ canvas = 0
                    THEN Log("animate", NoOptions, "returned", <<>>, <<>>)
                    ELSE Log("animate", NoOptions, "ran",
                             [i \in 1..Len(particles) |->
                                [ p |-> updateParticle(particles[i]),
                                  alive |-> updateReturns(particles[i]) ]],
                             filterParticles(particles))
    /\ UNCHANGED <<env, calls, inst, cfgTicks, svc>>

\* a call of confetti.reset()
Reset ==
    /\ \E s \in {reset(State)} : Set(s)
    /\ last' = [ Log("reset", NoOptions, "", <<>>, <<>>) EXCEPT !.after = Before ]
    /\ UNCHANGED <<env, calls, inst, cfgTicks, svc>>

Next == Confetti \/ Frame \/ Reset

Spec == Init /\ [][Next]_vars

(***************************************************************************)
(* The module-level engine when confetti() is called MaxCalls times at     *)
(* most and the browser runs every frame callback it holds.                *)
(***************************************************************************)
ConfettiCounted ==
    /\ calls < MaxCalls
    /\ \E options \in CallOptions, prefersReduced \in BOOLEAN, k \in 0..2 :
         /\ prefersReduced => "disableForReducedMotion" \in DOMAIN options
         /\ k # 0 => "colors" \in DOMAIN options
         /\ Call(options, prefersReduced, k)
    /\ calls' = calls + 1
    /\ UNCHANGED <<env, inst, cfgTicks, svc>>

NextLive == ConfettiCounted \/ Frame \/ Reset

SpecLive == Init /\ [][NextLive]_vars /\ WF_vars(Frame)

(***************************************************************************)
(* The instance of create(canvas, globalOptions).  The canvas given is     *)
(* none (0) or element 1, which is a child of document.body or is not.     *)
(***************************************************************************)
DrawOfCreate(u) ==
    [ color |-> u, shape |-> u, angle |-> u, wobble |-> u, wobbleSpeed |-> u ]

DrawsOfCreate(n) == [i \in 1..n |-> DrawOfCreate(5 * (i % 2))]

InstanceOptions ==
    { [particleCount |-> n, ticks |-> t, startVelocity |-> 0] :
          n \in 0..MaxCount, t \in {1, MaxTicks} }
    \cup
    { [particleCount |-> MaxLive, ticks |-> 1, startVelocity |-> 0, gravity |-> 0],
      [particleCount |-> MaxLive, startVelocity |-> 0, gravity |-> 0],
      [particleCount |-> 1, ticks |-> 1] }

LogOfCreate(op, options, result, updated, drawn) ==
    [ op |-> op, options |-> options, result |-> result,
      pending |-> raf # {}, live |-> Len(inst.particles),
      hadCanvas |-> inst.currentCanvas # 0,
      updated |-> updated, drawn |-> drawn, after |-> <<>> ]

SetOfCreate(s) ==
    /\ inst' = s.c
    /\ body' = s.body
    /\ raf' = s.raf
    /\ style' = s.style

InitCreate ==
    /\ env \in [has2d : BOOLEAN]
    /\ \E canvasArg \in {0, 1}, reduce \in BOOLEAN :
         /\ inst = create(canvasArg, [resize |-> FALSE, disableForReducedMotion |-> reduce])
         /\ body \in (IF canvasArg = 0 THEN {{}} ELSE {{}, {canvasArg}})
    /\ raf = {}
    /\ calls = 0
    /\ canvas = 0
    /\ ctx = FALSE
    /\ particles = <<>>
    /\ animationFrame = 0
    /\ style = <<>>
    /\ cfgTicks = <<>>
    /\ svc = [timers |-> {}, owner |-> <<>>]
    /\ last = [ op |-> "create", options |-> NoOptions, result |-> "",
                pending |-> FALSE, live |-> 0, hadCanvas |-> FALSE,
                updated |-> <<>>, drawn |-> <<>>, after |-> <<>> ]

\* a call of the instance
Instance ==
    /\ \E options \in InstanceOptions, prefersReduced \in BOOLEAN :
         LET merged == Merge(defaultsOfCreate, options)
             result == outcomeOfCreate(StateOfCreate, prefersReduced)
         IN  /\ prefersReduced => inst.globalOptions.disableForReducedMotion
             /\ Len(inst.particles) + merged.particleCount <= MaxLive
             /\ \E s \in {instance(StateOfCreate, options, prefersReduced,
                                  DrawsOfCreate(merged.particleCount))} : SetOfCreate(s)
             /\ cfgTicks' = IF result = "accepted"
                            THEN cfgTicks \o [i \in 1..merged.particleCount |-> merged.ticks]
                            ELSE cfgTicks
             /\ last' = LogOfCreate("instance", options, result, <<>>, <<>>)
    /\ UNCHANGED <<env, calls, canvas, ctx, particles, animationFrame, svc>>

\* the browser runs a pending frame callback of the instance
InstanceFrame ==
    /\ \E h \in raf :
         /\ \E s \in {animateOfCreate(StateOfCreate, h)} : SetOfCreate(s)
         /\ IF ~inst.currentCtx \/ inst.currentCanvas = 0
            THEN /\ cfgTicks' = cfgTicks
                 /\ last' = LogOfCreate("animate", NoOptions, "returned", <<>>, <<>>)
            ELSE /\ cfgTicks' = keepAlive(inst.particles, cfgTicks)
                 /\ last' = LogOfCreate("animate", NoOptions, "ran",
                               [i \in 1..Len(inst.particles) |->
                                  [ p |-> updateParticleOfCreate(inst.particles[i]),
                                    alive |-> updateReturnsOfCreate(inst.particles[i]) ]],
                               <<>>)
    /\ UNCHANGED <<env, calls, canvas, ctx, particles, animationFrame, svc>>

\* a call of the instance's reset()
InstanceReset ==
    /\ \E s \in {instanceReset(StateOfCreate)} : SetOfCreate(s)
    /\ cfgTicks' = <<>>
    /\ last' = [ LogOfCreate("reset", NoOptions, "", <<>>, <<>>) EXCEPT !.after = Before ]
    /\ UNCHANGED <<env, calls, canvas, ctx, particles, animationFrame, svc>>

NextCreate == Instance \/ InstanceFrame \/ InstanceReset

SpecCreate == InitCreate /\ [][NextCreate]_vars

(***************************************************************************)
(* A page that uses both the module-level confetti() and an instance of    *)
(* create(), one at a time: an engine is used while the other holds no     *)
(* particle, no context and no frame handle, so that every pending frame   *)
(* callback is a callback of the engine in use.  The instance is made      *)
(* without disableForReducedMotion.                                        *)
(***************************************************************************)
EngineAtRest ==
    /\ canvas = 0
    /\ ~ctx
    /\ particles = <<>>
    /\ animationFrame = 0

InstanceAtRest ==
    /\ inst.currentCanvas = inst.canvas
    /\ ~inst.currentCtx
    /\ inst.particles = <<>>
    /\ inst.animationFrame = 0

NextPage == (InstanceAtRest /\ Next) \/ (EngineAtRest /\ NextCreate)

InitPage == InitCreate /\ ~inst.globalOptions.disableForReducedMotion

SpecPage == InitPage /\ [][NextPage]_vars

(***************************************************************************)
(* Properties of the module-level engine.                                  *)
(***************************************************************************)
Accepted == last.op = "confetti" /\ last.result = "accepted"

\* the particles the last accepted call appended
NewParticles == SubSeq(particles, last.live + 1, Len(particles))

\* no particle, no frame callback pending
Quiet == particles = <<>> /\ raf = {}

\* C1: a reset() made while a frame callback is pending and particles are live
\* leaves the particle list empty, no frame callback pending, the canvas out of
\* the document and canvas and ctx null; and from a state with no particle and
\* no pending frame, every step other than an accepted confetti() call leaves it
\* so and is no frame callback, so nothing is updated or drawn until then.
C1_ResetStopsEverything ==
    /\ [][ (last'.op = "reset" /\ raf # {} /\ particles # <<>>)
           => /\ particles' = <<>>
              /\ raf' = {}
              /\ animationFrame' = 0
              /\ canvas' = 0
              /\ ~ctx'
              /\ canvas \notin body' ]_vars
    /\ [][ (Quiet /\ ~(last'.op = "confetti" /\ last'.result = "accepted"))
           => /\ Quiet'
              /\ last'.op # "animate"
              /\ last'.updated = <<>>
              /\ last'.drawn = <<>> ]_vars

C1_Witness ==
    /\ last.op = "reset"
    /\ last.pending
    /\ last.live > 0
    /\ last.hadCanvas
    /\ Quiet

\* C3: a frame callback whose filtering leaves the particle list empty ends with
\* the canvas removed from the document, canvas and ctx null, the frame handle
\* null and no frame callback pending.
C3_EmptyFrameGoesIdle ==
    (last.op = "animate" /\ last.result = "ran" /\ last.drawn = <<>>)
    => /\ canvas = 0
       /\ ~ctx
       /\ animationFrame = 0
       /\ raf = {}
       /\ particles = <<>>
       /\ body = {}

C3_Witness ==
    /\ last.op = "animate"
    /\ last.result = "ran"
    /\ last.drawn = <<>>
    /\ last.live > 0
    /\ last.hadCanvas

\* C5: updateParticle, called on a particle with totalTicks = N >= 1 that is
\* inside the viewport after the call, returns true when it is the 1st..(N-1)-th
\* call on the particle and false when it is the N-th.
C5_DeadAtNthCall ==
    \A i \in 1..Len(last.updated) :
        LET u == last.updated[i]
        IN  (u.p.totalTicks >= 1 /\ u.p.tick <= u.p.totalTicks
             /\ u.p.y < Px(innerHeight))
            => (u.alive <=> u.p.tick < u.p.totalTicks)

\* the RGB decomposition of a "#rrggbb" string
Rgb(hex) ==
    [ r |-> ParseInt16(Slice(hex, 1, 3)),
      g |-> ParseInt16(Slice(hex, 3, 5)),
      b |-> ParseInt16(Slice(hex, 5, 7)) ]

\* C6: the colour of every particle createParticle makes is the RGB
\* decomposition of one entry of the palette.
C6_ColorInPalette ==
    Accepted =>
        LET colors == Merge(defaults, last.options).colors
        IN  \A i \in 1..Len(NewParticles) :
                \E j \in 1..Len(colors) : NewParticles[i].color = Rgb(colors[j])

\* C7: every particle an accepted confetti() call with origin (ox, oy) creates
\* starts at (ox * window.innerWidth, oy * window.innerHeight).
C7_StartsAtOrigin ==
    ( /\ Accepted
      /\ "origin" \in DOMAIN last.options
      /\ last.options.origin # <<>>
      /\ last.options.origin[1].x # <<>>
      /\ last.options.origin[1].y # <<>> )
    => \A i \in 1..Len(NewParticles) :
           /\ NewParticles[i].x = last.options.origin[1].x[1] * innerWidth
           /\ NewParticles[i].y = last.options.origin[1].y[1] * innerHeight

\* C9: an accepted confetti() call with particleCount = n makes the particle
\* list n entries longer, every new entry with tick 0, and leaves the entries
\* that were in the list where they were and as they were.
C9_AppendsExactlyN ==
    [][ (last'.op = "confetti" /\ last'.result = "accepted")
        => /\ Len(particles') = Len(particles) + Merge(defaults, last'.options).particleCount
           /\ SubSeq(particles', 1, Len(particles)) = particles
           /\ \A i \in (Len(particles) + 1)..Len(particles') : particles'[i].tick = 0 ]_vars

C9_Witness ==
    /\ Accepted
    /\ last.live > 0
    /\ Len(particles) > last.live
    /\ particles[1].tick > 0
    /\ particles[Len(particles)].tick = 0

\* no particle, no canvas, no context, no frame callback pending
Idle ==
    /\ particles = <<>>
    /\ canvas = 0
    /\ ~ctx
    /\ body = {}
    /\ raf = {}

\* C4: when confetti() is called finitely often and pending frame callbacks keep
\* firing, then from every state with a live particle the engine comes to hold
\* no particle, no canvas and no pending frame, and stays so.
C4_LoopTerminates == [](particles # <<>> => <>[]Idle)

C4_Witness ==
    /\ calls = MaxCalls
    /\ last.op = "animate"
    /\ last.live > 0
    /\ last.drawn = <<>>
    /\ Idle

(***************************************************************************)
(* Properties of the instance of create().                                 *)
(***************************************************************************)
\* C2: after every accepted call of the instance with particleCount > 0 exactly
\* one frame callback is pending.
C2_AcceptedCallSchedules ==
    ( /\ last.op = "instance"
      /\ last.result = "accepted"
      /\ Merge(defaultsOfCreate, last.options).particleCount > 0 )
    => Cardinality(raf) = 1

\* C8: a particle made with ticks = N that is inside the viewport is in the
\* list for a number of frames N sets: it is never there with more than N
\* updates behind it.
C8_TicksSetLifetime ==
    \A i \in 1..Len(inst.particles) :
        inst.particles[i].y < Px(innerHeight)
        => inst.particles[i].tick <= cfgTicks[i]

\* C10: reset() of the instance takes the canvas the instance holds out of the
\* document when the instance made it and takes nothing out when the caller
\* gave it; a canvas the caller gave is the instance's canvas in every state,
\* and no step removes it from the document.
C10_ResetRemovesOnlyOwnCanvas ==
    /\ [][ last'.op = "reset"
           => /\ body' = IF inst.canvas = 0 THEN body \ {inst.currentCanvas} ELSE body
              /\ inst'.currentCanvas = inst.canvas ]_vars
    /\ []( /\ inst.canvas # 0 => inst.currentCanvas = inst.canvas
           /\ (inst.canvas = 0 /\ inst.currentCanvas # 0) => inst.currentCanvas \in body )
    /\ [][ inst.canvas \in body => inst.canvas \in body' ]_vars

C10_Witness ==
    /\ last.op = "reset"
    /\ last.live > 0
    /\ last.pending
    /\ inst.canvas # 0
    /\ inst.canvas \in body
    /\ inst.currentCanvas = inst.canvas

(***************************************************************************)
(* The module-level engine without a 2D context, and around reset().       *)
(***************************************************************************)
\* C11: a confetti() call that finds no 2D context returns null: it leaves the
\* particle list as it was, holds no context, and schedules no frame callback.
C11_DeclinesSilently ==
    [][ (last'.op = "confetti" /\ last'.result = "declined")
        => /\ particles' = particles
           /\ raf' = raf
           /\ animationFrame' = animationFrame
           /\ ~ctx' ]_vars

C11_Witness ==
    /\ last.op = "confetti"
    /\ last.result = "declined"
    /\ last.options.particleCount > 0
    /\ ~env.has2d
    /\ particles = <<>>
    /\ raf = {}

\* C12: in Idle (no canvas, no particle, no pending frame) the context and the
\* frame handle are null and no canvas is attached; and a reset() that comes
\* right after an accepted confetti() call made in Idle leaves canvas, ctx,
\* the particle list, the frame handle and the attached canvases as they were
\* before that call.
C12_CallThenResetIsIdle ==
    /\ []( (canvas = 0 /\ particles = <<>> /\ raf = {})
           => (~ctx /\ animationFrame = 0 /\ body = {} /\ style = <<>>) )
    /\ [][ ( /\ Accepted
             /\ ~last.pending /\ last.live = 0 /\ ~last.hadCanvas
             /\ last'.op = "reset" )
           => /\ canvas' = 0
              /\ ~ctx'
              /\ particles' = <<>>
              /\ animationFrame' = 0
              /\ body' = {}
              /\ style' = <<>>
              /\ raf' = {} ]_vars

C12_Witness ==
    /\ last.op = "reset"
    /\ last.after[1].op = "confetti"
    /\ last.after[1].result = "accepted"
    /\ last.after[1].idle
    /\ last.pending
    /\ last.live > 0
    /\ last.hadCanvas
    /\ Idle
    /\ animationFrame = 0

\* C13: in every state reached by the module-level engine and by an instance
\* of create(), reset() has a canvas to detach only when that canvas is
\* attached (removeChild does not raise), a second reset() changes nothing
\* after a first, and a reset() made at rest changes nothing.
C13_ResetIdempotent ==
    /\ []( /\ canvas # 0 => canvas \in body
           /\ (inst.currentCanvas # 0 /\ inst.canvas = 0) => inst.currentCanvas \in body )
    /\ []( /\ reset(reset(State)) = reset(State)
           /\ instanceReset(instanceReset(StateOfCreate)) = instanceReset(StateOfCreate) )
    /\ []( /\ EngineAtRest => reset(State) = State
           /\ InstanceAtRest => instanceReset(StateOfCreate) = StateOfCreate )
    /\ [][ (last.op = "reset" /\ last'.op = "reset")
           => UNCHANGED <<canvas, ctx, particles, animationFrame, body, raf, style, inst>> ]_vars

C13_Witness ==
    /\ last.op = "reset"
    /\ last.after[1].op = "reset"
    /\ ~last.pending
    /\ last.live = 0
    /\ ~last.hadCanvas
    /\ EngineAtRest
    /\ InstanceAtRest
    /\ raf = {}

\* C14: the canvas an accepted confetti(options) call creates has the z-index
\* of the merged options: options.zIndex when given, 100 otherwise.
C14_CanvasGetsZIndex ==
    (Accepted /\ ~last.hadCanvas)
    => style[canvas].zIndex = Merge(defaults, last.options).zIndex

(***************************************************************************)
(* The two states of the module-level engine, and its frame callbacks.     *)
(***************************************************************************)
\* no canvas allocated, no frame callback pending, empty particle list
IdleState == canvas = 0 /\ raf = {} /\ particles = <<>>

\* canvas and context allocated, one frame callback pending, particles live
RunningState ==
    /\ canvas # 0
    /\ ctx
    /\ Cardinality(raf) = 1
    /\ particles # <<>>

\* C15: between events the module-level engine is in Idle or in Running.
C15_IdleOrRunning == IdleState \/ RunningState

\* C16: at most one frame callback is pending in every state; a confetti()
\* call made while one is pending leaves the pending callbacks as they are;
\* and a frame callback leaves at most one pending, the one whose handle it
\* stored.
C16_OneCallbackInFlight ==
    /\ [](Cardinality(raf) <= 1)
    /\ [][ (last'.op = "confetti" /\ raf # {}) => raf' = raf ]_vars
    /\ [][ last'.op = "animate"
           => /\ Cardinality(raf') <= 1
              /\ raf' # {} => raf' = {animationFrame'} ]_vars

C16_Witness ==
    /\ Accepted
    /\ last.pending
    /\ last.live > 0
    /\ Len(particles) > last.live
    /\ Cardinality(raf) = 1

\* the particles of a frame's updates that their update reported alive, in order
Survivors(updated) ==
    LET kept == SelectSeq(updated, LAMBDA u : u.alive)
    IN  [i \in 1..Len(kept) |-> kept[i].p]

\* C17: a frame callback that runs updates every particle of the list once,
\* in order (the tick of each grows by 1), draws exactly those whose update
\* returned true, and leaves as the list the drawn particles in their order.
C17_FrameUpdatesOnceDrawsSurvivors ==
    [][ (last'.op = "animate" /\ last'.result = "ran")
        => /\ Len(last'.updated) = Len(particles)
           /\ \A i \in 1..Len(particles) :
                  last'.updated[i].p.tick = particles[i].tick + 1
           /\ last'.drawn = Survivors(last'.updated)
           /\ particles' = last'.drawn ]_vars

C17_Witness ==
    /\ last.op = "animate"
    /\ last.result = "ran"
    /\ Len(last.updated) = 2
    /\ ~last.updated[1].alive
    /\ last.updated[2].alive
    /\ particles = <<last.updated[2].p>>

(***************************************************************************)
(* What updateParticle returns and what a frame draws.                     *)
(***************************************************************************)
\* C18: an update that leaves a particle's y at or beyond window.innerHeight
\* returns false whatever the tick, and no such particle is in the list after
\* a frame; an update that leaves y below window.innerHeight and the tick below
\* totalTicks returns true, wherever x is and however far above 0 y is.
C18_DeadBelowViewport ==
    /\ \A i \in 1..Len(last.updated) :
          LET u == last.updated[i]
          IN  /\ u.p.y >= Px(innerHeight) => ~u.alive
              /\ (u.p.tick < u.p.totalTicks /\ u.p.y < Px(innerHeight)) => u.alive
    /\ last.op = "animate" => \A i \in 1..Len(particles) : particles[i].y < Px(innerHeight)

C18_Witness ==
    /\ last.op = "animate"
    /\ \E i, j \in 1..Len(last.updated) :
          /\ last.updated[i].p.y >= Px(innerHeight)
          /\ last.updated[i].p.tick < last.updated[i].p.totalTicks
          /\ ~last.updated[i].alive
          /\ last.updated[j].p.y < 0
          /\ last.updated[j].alive
    /\ Len(particles) = 1
    /\ particles[1].y < 0

\* C19: every particle a frame draws is drawn with 0 < tick <= totalTicks and
\* with an opacity in [0, 1], and when the particle was drawn in an earlier
\* frame, with an opacity below the one it was drawn with then.
C19_OpacityFades ==
    [][ (last'.op = "animate" /\ last'.result = "ran")
        => \A i \in 1..Len(particles) :
               last'.updated[i].alive =>
                   LET p == last'.updated[i].p
                       now == renderParticle(p).opacity
                       before == renderParticle(particles[i]).opacity
                   IN  /\ 0 < p.tick
                       /\ p.tick <= p.totalTicks
                       /\ now.den > 0
                       /\ 0 <= now.num
                       /\ now.num <= now.den
                       /\ particles[i].tick > 0
                          => now.num * before.den < before.num * now.den ]_vars

C19_Witness ==
    /\ last.op = "animate"
    /\ last.result = "ran"
    /\ \E i \in 1..Len(last.updated) :
          /\ last.updated[i].alive
          /\ last.updated[i].p.tick = 2
          /\ last.updated[i].p.totalTicks = 2
          /\ renderParticle(last.updated[i].p).opacity.num = 0
    /\ particles # <<>>

\* C20: after every update of a particle made with flat = true, its wobble is
\* 0 and its wobbleX and wobbleY are its x and y of that moment plus
\* 10 * scalar pixels.
C20_FlatHasNoWobble ==
    \A i \in 1..Len(last.updated) :
        LET p == last.updated[i].p
        IN  p.flat => /\ p.wobble = 0
                      /\ p.wobbleX = p.x + Px(10 * p.scalar)
                      /\ p.wobbleY = p.y + Px(10 * p.scalar)

C20_Witness ==
    /\ last.op = "animate"
    /\ \E i \in 1..Len(last.updated) :
          LET p == last.updated[i].p
          IN  /\ p.flat
              /\ p.scalar = 2
              /\ p.tick = 2
              /\ p.wobbleSpeed = 10
              /\ p.wobble = 0
              /\ p.wobbleX = p.x + Px(20)

(***************************************************************************)
(* The canvas of a declined call, and the guard of animate.                *)
(***************************************************************************)
\* C22: a confetti() call made in Idle that finds no 2D context leaves the
\* engine in Idle: no canvas held or attached, ctx null, no particle, no
\* frame callback pending.
C22_DeclinedCallStaysIdle ==
    ( /\ last.op = "confetti"
      /\ last.result = "declined"
      /\ ~last.hadCanvas /\ last.live = 0 /\ ~last.pending )
    => /\ canvas = 0
       /\ body = {}
       /\ ~ctx
       /\ particles = <<>>
       /\ raf = {}

\* C23: while a frame callback is pending canvas and ctx are non-null, so no
\* frame callback takes animate's early return; and a frame callback leaves
\* either one callback pending, with particles live, or the engine in Idle.
C23_AnimateNeverReturnsEarly ==
    /\ raf # {} => (ctx /\ canvas # 0)
    /\ last.op = "animate"
       => /\ last.result = "ran"
          /\ \/ (Cardinality(raf) = 1 /\ particles # <<>> /\ ctx /\ canvas # 0)
             \/ (Idle /\ animationFrame = 0)

C23_Witness ==
    /\ last.op = "animate"
    /\ last.result = "ran"
    /\ last.hadCanvas
    /\ last.live = 2
    /\ Len(particles) = 1
    /\ Cardinality(raf) = 1
    /\ ctx
    /\ canvas # 0

(***************************************************************************)
(* ConfettiService (app/services/confetti.service.ts) on a page of its     *)
(* own.  Time is counted in quarters of a second: a pending setTimeout     *)
(* callback holds the quarters left before it is due, runs when none are   *)
(* left, and in a quarter of a second the browser runs FramesPerQuarter    *)
(* frame callbacks.  Of every burst the first MaxBurst particles are       *)
(* followed, made with the draws of DrawList from its first place on.      *)
(* The state the service's methods work on is                              *)
(*   pg = [s, timers, owner]: the engine's state, the pending timers and,  *)
(*   for each particle of the list, the service call that made it.         *)
(***************************************************************************)
MaxBurst == 1
FramesPerQuarter == 15

Quarter == 250

duration == 3000

Page == [ s |-> State, timers |-> svc.timers, owner |-> svc.owner ]

Burst(options) ==
    [ options EXCEPT !.particleCount = Min(options.particleCount, MaxBurst) ]

\* a confetti(options) call made for the service call id
fire(pg, id, options, k) ==
    LET o == Burst(options)
        s2 == confetti(pg.s, o, FALSE, Draws(o.particleCount, k))
    IN  [ pg EXCEPT !.s = s2,
                    !.owner = pg.owner \o
                        [i \in 1..(Len(s2.particles) - Len(pg.s.particles)) |-> id] ]

\* setTimeout(callback, ms): the callback is a confetti(options) call
\* (kind "burst") or confetti.reset() (kind "reset")
setTimeout(pg, id, ms, kind, options) ==
    [ pg EXCEPT !.timers = pg.timers \cup
        { [id |-> id, left |-> ms \div Quarter, kind |-> kind, options |-> options] } ]

\* celebrate (confetti.service.ts:8-36)
celebrate(pg, id, k) ==
    LET p1 == fire(pg, id, [ particleCount |-> 100, spread |-> 70,
                             origin |-> << [x |-> <<>>, y |-> <<6>>] >> ], k)
        p2 == setTimeout(p1, id, 250, "burst",
                         [ particleCount |-> 50, spread |-> 120,
                           origin |-> << [x |-> <<>>, y |-> <<7>>] >> ])
        p3 == setTimeout(p2, id, 500, "burst",
                         [ particleCount |-> 80, spread |-> 100,
                           origin |-> << [x |-> <<>>, y |-> <<8>>] >> ])
    IN  setTimeout(p3, id, duration, "reset", NoOptions)

\* celebrateFromSides (confetti.service.ts:38-59)
celebrateFromSides(pg, id, k) ==
    LET p1 == fire(pg, id, [ particleCount |-> 50, angle |-> 60, spread |-> 55,
                             origin |-> << [x |-> <<0>>, y |-> <<6>>] >> ], k)
        p2 == fire(p1, id, [ particleCount |-> 50, angle |-> 120, spread |-> 55,
                             origin |-> << [x |-> <<10>>, y |-> <<6>>] >> ], k)
    IN  setTimeout(p2, id, duration, "reset", NoOptions)

\* Math.min(Math.max(0.1, v / extent), 0.9), in tenths
Clamp(v, extent) ==
    LET q == (10 * v) \div extent
    IN  Min(IF q < 1 THEN 1 ELSE q, 9)

\* the options celebrateFromPoint passes (confetti.service.ts:65-75)
pointOptions(x, y) ==
    [ particleCount |-> 50, spread |-> 70,
      origin |-> << [x |-> <<Clamp(x, innerWidth)>>, y |-> <<Clamp(y, innerHeight)>>] >>,
      startVelocity |-> 30 ]

\* celebrateFromPoint (confetti.service.ts:61-79)
celebrateFromPoint(pg, id, x, y, k) ==
    setTimeout(fire(pg, id, pointOptions(x, y), k), id, duration, "reset", NoOptions)

\* the browser runs the due callback t
timeout(pg, t, k) ==
    LET p1 == [ pg EXCEPT !.timers = pg.timers \ {t} ]
    IN  IF t.kind = "burst" THEN fire(p1, t.id, t.options, k)
        ELSE [ p1 EXCEPT !.s = reset(pg.s), !.owner = <<>> ]

\* the entries of xs at the places where animate keeps the particle of ps
RECURSIVE keepOwners(_, _)
keepOwners(ps, xs) ==
    IF ps = <<>> THEN <<>>
    ELSE IF updateReturns(Head(ps))
         THEN <<Head(xs)>> \o keepOwners(Tail(ps), Tail(xs))
         ELSE keepOwners(Tail(ps), Tail(xs))

\* the browser runs the pending frame callback, when there is one
frame(pg) ==
    IF pg.s.raf = {} THEN pg
    ELSE LET h == CHOOSE h \in pg.s.raf : TRUE
         IN  [ pg EXCEPT !.s = animate(pg.s, h),
                         !.owner = IF ~pg.s.ctx \/ pg.s.canvas = 0 THEN pg.owner
                                   ELSE keepOwners(pg.s.particles, pg.owner) ]

RECURSIVE frames(_, _)
frames(pg, n) ==
    IF n = 0 THEN pg
    ELSE \* the frame's result is bound once
         LET next == CHOOSE v \in {frame(pg)} : TRUE
         IN  frames(next, n - 1)

\* a quarter of a second passes
elapse(pg) ==
    LET p1 == frames(pg, FramesPerQuarter)
    IN  [ p1 EXCEPT !.timers = { [t EXCEPT !.left = t.left - 1] : t \in pg.timers } ]

SetPage(pg) ==
    /\ Set(pg.s)
    /\ svc' = [timers |-> pg.timers, owner |-> pg.owner]

\* the service calls whose reset is still to come
PendingCalls == { t.id : t \in { u \in svc.timers : u.kind = "reset" } }

NewCall == Fresh(PendingCalls \cup { svc.owner[i] : i \in DOMAIN svc.owner })

Celebrate ==
    /\ Cardinality(PendingCalls) < MaxCalls
    /\ \E pg \in {celebrate(Page, NewCall, 0)} : SetPage(pg)
    /\ last' = Log("celebrate", NoOptions, "", <<>>, <<>>)
    /\ UNCHANGED <<env, calls, inst, cfgTicks>>

CelebrateFromSides ==
    /\ Cardinality(PendingCalls) < MaxCalls
    /\ \E pg \in {celebrateFromSides(Page, NewCall, 0)} : SetPage(pg)
    /\ last' = Log("celebrateFromSides", NoOptions, "", <<>>, <<>>)
    /\ UNCHANGED <<env, calls, inst, cfgTicks>>

CelebrateFromPoint ==
    /\ Cardinality(PendingCalls) < MaxCalls
    /\ \E x \in {0, innerWidth}, y \in {innerHeight} :
         /\ \E pg \in {celebrateFromPoint(Page, NewCall, x, y, 0)} : SetPage(pg)
         /\ last' = Log("celebrateFromPoint", pointOptions(x, y), "", <<>>, <<>>)
    /\ UNCHANGED <<env, calls, inst, cfgTicks>>

Timeout ==
    /\ \E t \in svc.timers :
         /\ t.left = 0
         /\ \E pg \in {timeout(Page, t, 0)} : SetPage(pg)
         /\ last' = Log("timeout", t.options, t.kind, <<>>, <<>>)
    /\ UNCHANGED <<env, calls, inst, cfgTicks>>

Elapse ==
    /\ \A t \in svc.timers : t.left > 0
    /\ \E pg \in {elapse(Page)} : SetPage(pg)
    /\ last' = Log("elapse", NoOptions, "", <<>>, <<>>)
    /\ UNCHANGED <<env, calls, inst, cfgTicks>>

NextService ==
    Celebrate \/ CelebrateFromSides \/ CelebrateFromPoint \/ Timeout \/ Elapse

SpecService == Init /\ [][NextService]_vars

\* C21: a reset() run by a service call's timer removes only particles of
\* service calls whose own reset is due, so that no particle is removed by a
\* timer less than 3000 ms after the call that made it.
C21_OnlyOwnTimerRemoves ==
    [][ (last'.op = "timeout" /\ last'.result = "reset")
        => \A i \in 1..Len(svc.owner) :
               \E t \in svc.timers :
                   t.id = svc.owner[i] /\ t.kind = "reset" /\ t.left = 0 ]_vars

====
